---- MODULE Spec2Model ----
(***************************************************************************)
(* A model of COSMOS2 (src/cosmos): the DRM submit-argument formatter, the *)
(* abstract-file resolver, Tool validation, tool chaining and the executor  *)
(* state machine.  Python's None is the empty set and a present value v is  *)
(* the singleton {v}, so that optional integers and strings compare.        *)
(***************************************************************************)
EXTENDS Integers, Sequences, FiniteSets, TLC

VARIABLES
    sa_pc,      \* default_get_submit_args: "idle" | "call" | "done"
    sa_args,    \* its arguments: drm, the task's fields, default_queue
    sa_ret,     \* its outcome: a string, None, or the exception raised
    fd_pc,      \* _find: "idle" | "call" | "done"
    fd_args,    \* its arguments: taskfiles, abstract_file, error_if_missing
    fd_ret,     \* what the generator yielded and the exception that ended it
    gt_pc,      \* Tool._generate_task: "idle" | "call" | "done"
    gt_args,    \* the tool (self), the parents and default_drm
    gt_ret,     \* the Task built, or the exception raised
    tv_pc,      \* Tool.__init__: "idle" | "call" | "done"
    tv_args,    \* the Tool subclass being instantiated and the tags
    tv_ret,     \* the instance, or the exception raised
    ch_pc,      \* chain(): "idle" | "call" | "done"
    ch_args,    \* tool_classes
    ch_ret,     \* the synthesized CollapsedTool class, or the exception raised
    cr_pc,      \* a chained tool's _generate_command: "idle" | "call" | "done"
    cr_task,    \* the task rendered: merged_tool_classes, input_files, output_files
    cr_assocs,  \* the InputFileAssociations that point at the task's output files
    cr_ret,     \* what rendering did: the tools instantiated with their i/o, or the exception
    ex_pc,      \* the executor loop: "idle" | "new" | "running" | "exited"
    ex_graph,   \* the persisted Task DAG: parents, must_succeed, NOOP, max_attempts, script
    ex_status,  \* the Execution's status
    task_status,\* each Task's status
    attempt,    \* each Task's attempt count
    submissions,\* how many times each Task was handed to the DRM's submit
    out_file    \* what each Task's script has written to its out_file (reattempt.py)

sa_vars == <<sa_pc, sa_args, sa_ret>>
fd_vars == <<fd_pc, fd_args, fd_ret>>
gt_vars == <<gt_pc, gt_args, gt_ret>>
tv_vars == <<tv_pc, tv_args, tv_ret>>
ch_vars == <<ch_pc, ch_args, ch_ret>>
cr_vars == <<cr_pc, cr_task, cr_assocs, cr_ret>>
ex_vars == <<ex_pc, ex_graph, ex_status, task_status, attempt, submissions, out_file>>

vars == <<sa_vars, fd_vars, gt_vars, tv_vars, ch_vars, cr_vars, ex_vars>>

sa_others == <<fd_vars, gt_vars, tv_vars, ch_vars, cr_vars, ex_vars>>
fd_others == <<sa_vars, gt_vars, tv_vars, ch_vars, cr_vars, ex_vars>>
gt_others == <<sa_vars, fd_vars, tv_vars, ch_vars, cr_vars, ex_vars>>
tv_others == <<sa_vars, fd_vars, gt_vars, ch_vars, cr_vars, ex_vars>>
ch_others == <<sa_vars, fd_vars, gt_vars, tv_vars, cr_vars, ex_vars>>
cr_others == <<sa_vars, fd_vars, gt_vars, tv_vars, ch_vars, ex_vars>>
ex_others == <<sa_vars, fd_vars, gt_vars, tv_vars, ch_vars, cr_vars>>

(***************************************************************************)
(* Python values                                                           *)
(***************************************************************************)
None == {}
Some(v) == {v}
The(o) == CHOOSE v \in o : TRUE

\* Python truthiness of an optional integer: None and 0 are false.
TruthyInt(o) == o # None /\ The(o) # 0

\* Python truthiness of an optional string: None and '' are false.
TruthyStr(o) == o # None /\ The(o) # ""

\* `sub in s` for two Python strings
StrContains(sub, s) ==
    \E i \in 1..(Len(s) - Len(sub) + 1) : SubSeq(s, i, i + Len(sub) - 1) = sub

\* Python 2 `a / b` on ints: floor division
FloorDiv(a, b) == a \div b

\* '%s' / '{0}' of an optional value
FmtInt(o) == IF o = None THEN "None" ELSE ToString(The(o))
FmtStr(o) == IF o = None THEN "None" ELSE The(o)

Returned(v) == [kind |-> "return", value |-> v]
Raised(e) == [kind |-> "raise", exc |-> e]
NoOutcome == [kind |-> "none"]
NoCall == [kind |-> "none"]

\* A component that a specification leaves out stays idle.
IdleSubmit == sa_pc = "idle" /\ sa_args = NoCall /\ sa_ret = NoOutcome
IdleFind == fd_pc = "idle" /\ fd_args = NoCall /\ fd_ret = NoOutcome
IdleGenerateTask == gt_pc = "idle" /\ gt_args = NoCall /\ gt_ret = NoOutcome
IdleValidate == tv_pc = "idle" /\ tv_args = NoCall /\ tv_ret = NoOutcome
IdleChain == ch_pc = "idle" /\ ch_args = NoCall /\ ch_ret = NoOutcome
IdleRender == cr_pc = "idle" /\ cr_task = NoCall /\ cr_assocs = {} /\ cr_ret = NoOutcome
IdleExecutor ==
    /\ ex_pc = "idle" /\ ex_graph = NoCall /\ ex_status = "no_attempt"
    /\ task_status = <<>> /\ attempt = <<>> /\ submissions = <<>> /\ out_file = <<>>

\* Every component but c is idle.
IdleAllBut(c) ==
    /\ (c = "sa" \/ IdleSubmit)
    /\ (c = "fd" \/ IdleFind)
    /\ (c = "gt" \/ IdleGenerateTask)
    /\ (c = "tv" \/ IdleValidate)
    /\ (c = "ch" \/ IdleChain)
    /\ (c = "cr" \/ IdleRender)
    /\ (c = "ex" \/ IdleExecutor)

(***************************************************************************)
(* default_get_submit_args (src/cosmos/__init__.py)                        *)
(***************************************************************************)
MaxCpu == 4
MaxMemK == 8

DrmNames == {"local", "lsf", "ge", "sge", "lsf2", "slurm", ""}
CpuReqs == {None} \cup {Some(n) : n \in 0..MaxCpu}
MemReqs == {None} \cup {Some(1000 * k) : k \in 0..MaxMemK}
TimeReqs == {None, Some(0), Some(60)}
Queues == {None, Some(""), Some("batch")}
StageNames == {"Compute"}
TaskIds == {Some(7)}

jobname(task) == task.stage_name \o "_task(" \o FmtInt(task.id) \o ")"

lsf_submit_args(task, default_queue) ==
    IF task.cpu_req = None THEN Raised("TypeError")
    ELSE IF The(task.cpu_req) = 0 THEN Raised("ZeroDivisionError")
    ELSE Returned(Some(
        "-R \"rusage[mem="
        \o ToString(FloorDiv(IF TruthyInt(task.mem_req) THEN The(task.mem_req) ELSE 0,
                             The(task.cpu_req)))
        \o "] span[hosts=1]\" -n " \o FmtInt(task.cpu_req)
        \o (IF TruthyInt(task.time_req) THEN " -W 0:" \o FmtInt(task.time_req) ELSE "")
        \o (IF TruthyStr(default_queue) THEN " -q " \o FmtStr(default_queue) ELSE "")
        \o " -J \"" \o jobname(task) \o "\""))

ge_submit_args(task, default_queue) ==
    Returned(Some(
        "-pe smp " \o FmtInt(task.cpu_req)
        \o (IF TruthyStr(default_queue) THEN " -q " \o FmtStr(default_queue) ELSE "")
        \o " -N \"" \o jobname(task) \o "\""))

default_get_submit_args(drm, task, default_queue) ==
    IF StrContains("lsf", drm) THEN lsf_submit_args(task, default_queue)
    ELSE IF StrContains("ge", drm) THEN ge_submit_args(task, default_queue)
    ELSE IF drm = "local" THEN Returned(None)
    ELSE Raised("Exception: DRM not supported")

SubmitCalls ==
    [drm : DrmNames,
     task : [cpu_req : CpuReqs, mem_req : MemReqs, time_req : TimeReqs,
             stage_name : StageNames, id : TaskIds],
     default_queue : Queues]

InitSubmit ==
    /\ sa_pc = "call"
    /\ sa_args \in SubmitCalls
    /\ sa_ret = NoOutcome
    /\ IdleAllBut("sa")

GetSubmitArgs ==
    /\ sa_pc = "call"
    /\ sa_ret' = default_get_submit_args(sa_args.drm, sa_args.task, sa_args.default_queue)
    /\ sa_pc' = "done"
    /\ UNCHANGED <<sa_args, sa_others>>

NextSubmit == GetSubmitArgs

SpecSubmit == InitSubmit /\ [][NextSubmit]_vars

(***************************************************************************)
(* Claims about default_get_submit_args                                    *)
(***************************************************************************)
SubmitDone == sa_pc = "done"

\* C1: for every task submitted to LSF the formatter returns exactly
\* -R "rusage[mem=M] span[hosts=1]" -n <cpu_req>[ -W 0:<time_req>][ -q <queue>]
\* -J "<stage_name>_task(<task_id>)", with M the integer quotient
\* mem_req / cpu_req (0 when mem_req is unset), the -W part only when time_req
\* is set and the -q part only when a default queue is given.
C1_LsfSubmitArgsExact ==
    (SubmitDone /\ sa_args.drm = "lsf") =>
        /\ sa_ret.kind = "return"
        /\ sa_ret.value # None
        /\ sa_args.task.cpu_req # None
        /\ The(sa_args.task.cpu_req) > 0
        /\ LET t == sa_args.task
               cpu == The(t.cpu_req)
               mem == IF t.mem_req = None THEN 0 ELSE The(t.mem_req)
           IN \E M \in 0..mem, W \in BOOLEAN, Q \in BOOLEAN :
                /\ M * cpu <= mem /\ mem < (M + 1) * cpu
                /\ W => t.time_req # None
                /\ Q => sa_args.default_queue # None
                /\ The(sa_ret.value) =
                      "-R \"rusage[mem=" \o ToString(M) \o "] span[hosts=1]\" -n "
                      \o ToString(cpu)
                      \o (IF W THEN " -W 0:" \o ToString(The(t.time_req)) ELSE "")
                      \o (IF Q THEN " -q " \o The(sa_args.default_queue) ELSE "")
                      \o " -J \"" \o t.stage_name \o "_task(" \o ToString(The(t.id)) \o ")\""

\* C5: every DRM name other than exactly local, lsf, ge makes the formatter
\* fail as unsupported and return no argument string; the three supported
\* names never fail that way.
C5_UnknownDrmRejected ==
    SubmitDone =>
        (sa_args.drm \notin {"local", "lsf", "ge"}
            <=> sa_ret = Raised("Exception: DRM not supported"))

(***************************************************************************)
(* _find (src/cosmos/models/Tool.py): the resolver's matching rule          *)
(***************************************************************************)
MaxFiles == 3

FileNames == {"a", "b"}
FileFormats == {"txt", "bam"}
AbstractNames == {None} \cup {Some(n) : n \in FileNames}
AbstractFormats == {None, Some("*")} \cup {Some(f) : f \in FileFormats}

\* A concrete TaskFile; id tells two files of the same name and format apart.
TaskFile(id, name, format) == [id |-> id, name |-> name, format |-> format]

\* the two kinds Tool.__validate tells apart by class name
AbstractInputFile(name, format, forward) ==
    [cls |-> "AbstractInputFile", name |-> name, format |-> format, forward |-> forward]
AbstractOutputFile(name, format) ==
    [cls |-> "AbstractOutputFile", name |-> name, format |-> format]

AbstractFiles == [name : AbstractNames, format : AbstractFormats, forward : BOOLEAN]

\* Lists of up to n TaskFiles, the file at position k having id base + k.
TaskFileLists(base, n) ==
    UNION {{[k \in 1..len |-> TaskFile(base + k, nf[k][1], nf[k][2])] :
                nf \in [1..len -> FileNames \X FileFormats]} : len \in 0..n}

\* find_test with the null format no longer a wildcard.
find_test_strict_format(tf, name, format) ==
    /\ (name = Some(tf.name) \/ name = None)
    /\ format = Some(tf.format)

\* The test of line 334: `name in [tf.name, None] and format in [tf.format, None]`
find_test(tf, name, format) ==
    /\ (name = Some(tf.name) \/ name = None)
    /\ (format = Some(tf.format) \/ format = None)

\* The loop of lines 333-336 from position i on: the files it yields, in order.
RECURSIVE find_loop(_, _, _, _)
find_loop(taskfiles, i, name, format) ==
    IF i > Len(taskfiles) THEN <<>>
    ELSE IF find_test(taskfiles[i], name, format)
         THEN <<taskfiles[i]>> \o find_loop(taskfiles, i + 1, name, format)
         ELSE find_loop(taskfiles, i + 1, name, format)

\* The generator run to its end: what it yielded and the exception, if any,
\* that ended it.  `assert name or format` fails on the first next().
Generated(yielded, exc) == [yielded |-> yielded, exc |-> exc]

_find(taskfiles, abstract_file, error_if_missing) ==
    LET name == abstract_file.name
        format == abstract_file.format
    IN IF ~(TruthyStr(name) \/ TruthyStr(format))
       THEN Generated(<<>>, Some("AssertionError"))
       ELSE IF format = Some("*")
            THEN Generated(taskfiles, None)
            ELSE LET found == find_loop(taskfiles, 1, name, format)
                 IN Generated(found,
                              IF found = <<>> /\ error_if_missing
                              THEN Some("ValueError") ELSE None)

FindCalls ==
    [taskfiles : TaskFileLists(0, MaxFiles),
     abstract_file : AbstractFiles,
     error_if_missing : BOOLEAN]

InitFind ==
    /\ fd_pc = "call"
    /\ fd_args \in FindCalls
    /\ fd_ret = NoOutcome
    /\ IdleAllBut("fd")

Find ==
    /\ fd_pc = "call"
    /\ fd_ret' = _find(fd_args.taskfiles, fd_args.abstract_file, fd_args.error_if_missing)
    /\ fd_pc' = "done"
    /\ UNCHANGED <<fd_args, fd_others>>

NextFind == Find

SpecFind == InitFind /\ [][NextFind]_vars

(***************************************************************************)
(* Claims about _find                                                      *)
(***************************************************************************)
FindDone == fd_pc = "done"

\* The matching rule as the specification words it.
RuleMatches(tf, abstract_file) ==
    \/ abstract_file.format = Some("*")
    \/ /\ (abstract_file.name = None \/ abstract_file.name = Some(tf.name))
       /\ (abstract_file.format = None \/ abstract_file.format = Some(tf.format))

\* The files of a list that the rule matches, in list order, each once.
RuleSelection(taskfiles, abstract_file) ==
    LET Test(tf) == RuleMatches(tf, abstract_file)
    IN SelectSeq(taskfiles, Test)

\* C2 as stated: for every abstract file and every scanned list, _find yields
\* exactly the files the matching rule selects, in list order, each once.
C2_FindYieldsRuleSelection ==
    FindDone => fd_ret.yielded = RuleSelection(fd_args.taskfiles, fd_args.abstract_file)

\* C2 amended: an abstract file with neither a name nor a format fails _find's
\* assertion and yields nothing; for every other abstract file _find passes the
\* assertion and yields exactly the files the matching rule selects, in list
\* order, each once.
C2_FindYieldsRuleSelectionWhenNamed ==
    FindDone =>
        LET af == fd_args.abstract_file
        IN IF af.name = None /\ af.format = None
           THEN fd_ret = Generated(<<>>, Some("AssertionError"))
           ELSE /\ fd_ret.exc # Some("AssertionError")
                /\ fd_ret.yielded = RuleSelection(fd_args.taskfiles, af)

\* A null format acts as a wildcard: a name-only abstract file picks the first
\* and third of three files and skips the second.
C2_Witness ==
    /\ FindDone
    /\ fd_args.abstract_file.name = Some("a")
    /\ fd_args.abstract_file.format = None
    /\ Len(fd_args.taskfiles) = 3
    /\ fd_args.taskfiles[2].name = "b"
    /\ fd_args.taskfiles[1].format # fd_args.taskfiles[3].format
    /\ fd_ret.yielded = <<fd_args.taskfiles[1], fd_args.taskfiles[3]>>

(***************************************************************************)
(* Tool._map_inputs and Tool._generate_task (src/cosmos/models/Tool.py)    *)
(***************************************************************************)
MaxInputs == 2
MaxParents == 2

BindAbstractInputs ==
    [cls : {"AbstractInputFile"}, name : AbstractNames,
     format : {None, Some("*"), Some("txt")}, forward : BOOLEAN]

\* The output file and the forwarded input a parent may have.
BindParentFiles(base) ==
    {<<>>, <<TaskFile(base + 1, "a", "txt")>>, <<TaskFile(base + 1, "b", "bam")>>}

\* Parent k of a child: its output_files and its forwarded_inputs.
BindParents(k) ==
    [output_files : BindParentFiles(10 * k), forwarded_inputs : BindParentFiles(10 * k + 5)]

BindParentLists ==
    UNION {{ps \in [1..n -> UNION {BindParents(k) : k \in 1..n}] :
                \A k \in 1..n : ps[k] \in BindParents(k)} : n \in 1..MaxParents}

BindInputLists == UNION {[1..n -> BindAbstractInputs] : n \in 1..MaxInputs}

\* The plain Tool classes bound here: declared inputs, one declared output.
BindTools ==
    [inputs : BindInputLists,
     outputs : {<<AbstractOutputFile(Some("out"), Some("txt"))>>},
     drm : {None, Some("local")},
     mem_req : {None}, time_req : {None}, cpu_req : {Some(1)},
     must_succeed : {TRUE}, NOOP : {FALSE}, persist : {FALSE}, tags : {{}}]

\* (taskfile, is_forward) pairs of one _find call of line 73
map_inputs_pairs(found, forward) ==
    [k \in 1..Len(found) |-> [taskfile |-> found[k], forward |-> forward]]

\* The loops of lines 71-74 from abstract input i and parent j on.  _find is
\* called with error_if_missing=False.
RECURSIVE map_inputs_loop(_, _, _, _)
map_inputs_loop(inputs, parents, i, j) ==
    IF i > Len(inputs) THEN Generated(<<>>, None)
    ELSE IF j > Len(parents) THEN map_inputs_loop(inputs, parents, i + 1, 1)
    ELSE LET g == _find(parents[j].output_files \o parents[j].forwarded_inputs,
                        inputs[i], FALSE)
         IN IF g.exc # None THEN Generated(<<>>, g.exc)
            ELSE LET rest == map_inputs_loop(inputs, parents, i, j + 1)
                 IN Generated(map_inputs_pairs(g.yielded, inputs[i].forward) \o rest.yielded,
                              rest.exc)

_map_inputs(self, parents) == map_inputs_loop(self.inputs, parents, 1, 1)

\* The tag a name refers to, if it has a placeholder.
Placeholder(name) == IF name = "{sample}" THEN Some("sample") ELSE None

\* str_format (util.helpers) of a declared name: a placeholder is replaced by
\* the value of the tag it names ("s1" for the tag sample), and a tag that
\* is missing raises KeyError; a name without placeholder comes back as is.
str_format(name, tags) ==
    IF Placeholder(name) = None THEN Returned(name)
    ELSE IF The(Placeholder(name)) \in tags THEN Returned("s1")
    ELSE Raised("KeyError")

\* Lines 93-100 for a plain Tool: one TaskFile per declared output, named by
\* str_format of the declared name.
generate_output_files(self) ==
    [k \in 1..Len(self.outputs) |->
        TaskFile(100 + k, str_format(The(self.outputs[k].name), self.tags).value,
                 The(self.outputs[k].format))]

_generate_task(self, parents, default_drm) ==
    LET inputs == _map_inputs(self, parents)
    IN IF inputs.exc # None THEN Raised(The(inputs.exc))
       ELSE IF \E k \in 1..Len(self.outputs) :
                  str_format(The(self.outputs[k].name), self.tags).kind = "raise"
       THEN Raised("KeyError")
       ELSE Returned(
            [_input_file_assocs |-> inputs.yielded,
             parents |-> parents,
             drm |-> IF self.drm = Some("local") THEN "local" ELSE default_drm,
             mem_req |-> self.mem_req, time_req |-> self.time_req,
             cpu_req |-> self.cpu_req, must_succeed |-> self.must_succeed,
             NOOP |-> self.NOOP,
             output_files |-> generate_output_files(self)])

GenerateTaskCalls == [self : BindTools, parents : BindParentLists, default_drm : {"lsf"}]

InitGenerateTask ==
    /\ gt_pc = "call"
    /\ gt_args \in GenerateTaskCalls
    /\ gt_ret = NoOutcome
    /\ IdleAllBut("gt")

GenerateTask ==
    /\ gt_pc = "call"
    /\ gt_ret' = _generate_task(gt_args.self, gt_args.parents, gt_args.default_drm)
    /\ gt_pc' = "done"
    /\ UNCHANGED <<gt_args, gt_others>>

NextGenerateTask == GenerateTask

SpecGenerateTask == InitGenerateTask /\ [][NextGenerateTask]_vars

(***************************************************************************)
(* Claims about input binding                                              *)
(***************************************************************************)
GenerateTaskDone == gt_pc = "done"

\* All files a child may bind to: its parents' outputs and forwarded inputs.
ParentFiles(parents) ==
    UNION {{parents[k].output_files[n] : n \in 1..Len(parents[k].output_files)}
           \cup {parents[k].forwarded_inputs[n] : n \in 1..Len(parents[k].forwarded_inputs)} :
           k \in 1..Len(parents)}

\* An abstract input that matches none of the parents' files.
Unmatched(abstract_file, parents) ==
    \A tf \in ParentFiles(parents) : ~RuleMatches(tf, abstract_file)

\* C3: when one of the child's AbstractInputFiles matches no file among the
\* parents' outputs and forwarded inputs, binding fails with ResolutionError
\* and no child Task is produced.
C3_MissingInputFailsBinding ==
    (GenerateTaskDone
        /\ \E i \in 1..Len(gt_args.self.inputs) : Unmatched(gt_args.self.inputs[i], gt_args.parents))
    => gt_ret.kind = "raise"

(***************************************************************************)
(* Tool.__init__ and Tool.__validate (src/cosmos/models/Tool.py)           *)
(***************************************************************************)
MaxDecl == 2

\* What a Tool subclass may list in `inputs` / `outputs`: abstract files made
\* by the input or the output factory, or some other object.
DeclaredItems ==
    [cls : {"AbstractInputFile", "AbstractOutputFile"},
     name : {Some("a"), Some("b")}, format : {Some("txt")}]
    \cup {[cls |-> "str", name |-> None, format |-> None]}

DeclaredLists == UNION {[1..n -> DeclaredItems] : n \in 0..MaxDecl}

\* getargspec(self.cmd).args of the subclass's cmd
CmdSignatures == {{"self", "i", "o", "s"}, {"self", "i", "o", "s", "sample"},
                  {"self", "i", "o"}, {"self"}}

\* the keys of the tags dict
TagKeySets == {{}, {"sample"}, {"i"}, {"sample", "s"}}

\* has_duplicates (util.helpers) of the (name, format) pairs of a list
has_duplicates(items) ==
    \E j, k \in 1..Len(items) :
        j < k /\ <<items[j].name, items[j].format>> = <<items[k].name, items[k].format>>

\* __validate with the check for duplicate outputs left out
validate_no_output_check(self) ==
    IF \E k \in 1..Len(self.inputs) : self.inputs[k].cls # "AbstractInputFile"
    THEN Raised("AssertionError")
    ELSE IF \E k \in 1..Len(self.outputs) : self.outputs[k].cls # "AbstractOutputFile"
    THEN Raised("AssertionError")
    ELSE IF has_duplicates(self.inputs) THEN Raised("ToolValidationError")
    ELSE IF ~({"i", "o", "s"} \subseteq self.cmd_args) THEN Raised("AssertionError")
    ELSE IF self.tags \cap {"i", "o", "s"} # {} THEN Raised("ToolValidationError")
    ELSE Returned(None)

\* Tool.__validate: the checks of lines 50-63 in order; the first that fails
\* decides the exception.
validate(self) ==
    IF \E k \in 1..Len(self.inputs) : self.inputs[k].cls # "AbstractInputFile"
    THEN Raised("AssertionError")
    ELSE IF \E k \in 1..Len(self.outputs) : self.outputs[k].cls # "AbstractOutputFile"
    THEN Raised("AssertionError")
    ELSE IF has_duplicates(self.inputs) THEN Raised("ToolValidationError")
    ELSE IF has_duplicates(self.outputs) THEN Raised("ToolValidationError")
    ELSE IF ~({"i", "o", "s"} \subseteq self.cmd_args) THEN Raised("AssertionError")
    ELSE IF self.tags \cap {"i", "o", "s"} # {} THEN Raised("ToolValidationError")
    ELSE Returned(None)

\* Tool.__init__(self, tags): self.tags = tags; self.__validate()
Tool__init__(cls, tags) ==
    LET self == [inputs |-> cls.inputs, outputs |-> cls.outputs,
                 cmd_args |-> cls.cmd_args, tags |-> tags]
        v == validate(self)
    IN IF v.kind = "raise" THEN v ELSE Returned(Some(self))

ValidateCalls ==
    [cls : [inputs : DeclaredLists, outputs : DeclaredLists, cmd_args : CmdSignatures],
     tags : TagKeySets]

InitValidate ==
    /\ tv_pc = "call"
    /\ tv_args \in ValidateCalls
    /\ tv_ret = NoOutcome
    /\ IdleAllBut("tv")

Instantiate ==
    /\ tv_pc = "call"
    /\ tv_ret' = Tool__init__(tv_args.cls, tv_args.tags)
    /\ tv_pc' = "done"
    /\ UNCHANGED <<tv_args, tv_others>>

NextValidate == Instantiate

SpecValidate == InitValidate /\ [][NextValidate]_vars

(***************************************************************************)
(* Claims about Tool validation                                            *)
(***************************************************************************)
ValidateDone == tv_pc = "done"

\* (a) as claimed: a declared input or output that is no AbstractFile at all
NotAbstractFile(cls) ==
    \/ \E k \in 1..Len(cls.inputs) :
            cls.inputs[k].cls \notin {"AbstractInputFile", "AbstractOutputFile"}
    \/ \E k \in 1..Len(cls.outputs) :
            cls.outputs[k].cls \notin {"AbstractInputFile", "AbstractOutputFile"}

\* (a) as the code tests it: an input that is not an AbstractInputFile or an
\* output that is not an AbstractOutputFile
WrongAbstractFile(cls) ==
    \/ \E k \in 1..Len(cls.inputs) : cls.inputs[k].cls # "AbstractInputFile"
    \/ \E k \in 1..Len(cls.outputs) : cls.outputs[k].cls # "AbstractOutputFile"

\* (b) two declared inputs, or two declared outputs, with the same (name, format)
DuplicatePair(cls) ==
    \/ \E j, k \in 1..Len(cls.inputs) :
            j # k /\ cls.inputs[j].name = cls.inputs[k].name
                  /\ cls.inputs[j].format = cls.inputs[k].format
    \/ \E j, k \in 1..Len(cls.outputs) :
            j # k /\ cls.outputs[j].name = cls.outputs[k].name
                  /\ cls.outputs[j].format = cls.outputs[k].format

\* (c) cmd does not accept all of i, o, s
CmdLacksReserved(cls) == \E a \in {"i", "o", "s"} : a \notin cls.cmd_args

\* (d) a tag key named i, o or s
TagsUseReserved(tags) == \E a \in {"i", "o", "s"} : a \in tags

\* C4 as stated: instantiation fails with ToolValidationError in each of the
\* cases (a)-(d) and succeeds when none holds.
C4_ValidationErrorInEachCase ==
    ValidateDone =>
        IF \/ NotAbstractFile(tv_args.cls) \/ DuplicatePair(tv_args.cls)
           \/ CmdLacksReserved(tv_args.cls) \/ TagsUseReserved(tv_args.tags)
        THEN tv_ret = Raised("ToolValidationError")
        ELSE tv_ret.kind = "return"

\* C4 amended: instantiation fails in each of the cases and succeeds when none
\* holds, where (a) is an input that is not an AbstractInputFile or an output
\* that is not an AbstractOutputFile; the failure is an AssertionError in
\* cases (a) and (c) and a ToolValidationError in cases (b) and (d), the first
\* case in the order a, b, c, d deciding when several hold.
C4_ValidationFailsInEachCase ==
    ValidateDone =>
        IF WrongAbstractFile(tv_args.cls) THEN tv_ret = Raised("AssertionError")
        ELSE IF DuplicatePair(tv_args.cls) THEN tv_ret = Raised("ToolValidationError")
        ELSE IF CmdLacksReserved(tv_args.cls) THEN tv_ret = Raised("AssertionError")
        ELSE IF TagsUseReserved(tv_args.tags) THEN tv_ret = Raised("ToolValidationError")
        ELSE tv_ret.kind = "return"

\* A tool whose only fault is two outputs of the same (name, format) is
\* rejected with ToolValidationError.
C4_Witness ==
    /\ ValidateDone
    /\ ~WrongAbstractFile(tv_args.cls)
    /\ Len(tv_args.cls.inputs) = 1
    /\ Len(tv_args.cls.outputs) = 2
    /\ tv_args.cls.outputs[1] = tv_args.cls.outputs[2]
    /\ ~CmdLacksReserved(tv_args.cls)
    /\ ~TagsUseReserved(tv_args.tags)
    /\ tv_ret = Raised("ToolValidationError")

(***************************************************************************)
(* chain() (src/cosmos/models/Tool.py): collapsing tool classes            *)
(***************************************************************************)
MaxChain == 3

\* Python 2 max() of optional integers: None sorts below every int.
PyMax(values) ==
    IF \A v \in values : v = None THEN None
    ELSE Some(CHOOSE n \in {The(v) : v \in values \ {None}} :
                \A v \in values \ {None} : The(v) <= n)

\* A class as chain() sees it: its base (Tool itself for a user's tool, Input,
\* Inputs, or object for a class that is no Tool) and its class attributes.
\* Input and Inputs set NOOP on the instance, in __init__ (lines 170, 195);
\* as classes they inherit Tool.NOOP = False (line 34).
ToolClass(name, base, noop, inputs, outputs, mem_req, must_succeed) ==
    [name |-> name, base |-> base, NOOP |-> noop, inputs |-> inputs, outputs |-> outputs,
     mem_req |-> mem_req, time_req |-> None, cpu_req |-> None,
     must_succeed |-> must_succeed, persist |-> FALSE,
     cmd_args |-> {"self", "i", "o", "s"}]

InputClass == ToolClass("Input", "Input", FALSE, <<>>, <<>>, None, TRUE)
InputsClass == ToolClass("Inputs", "Inputs", FALSE, <<>>, <<>>, None, TRUE)
ObjectClass == ToolClass("object", "object", FALSE, <<>>, <<>>, None, TRUE)

UserToolClasses ==
    {ToolClass("T", "Tool", noop, <<>>, <<AbstractOutputFile(Some("out"), Some("txt"))>>,
               mem, ms) :
        noop \in BOOLEAN, mem \in {None, Some(1000)}, ms \in BOOLEAN}

ChainableClasses == UserToolClasses \cup {InputClass, InputsClass, ObjectClass}

\* issubclass(tc, Tool)
IsToolSubclass(tc) == tc.base \in {"Tool", "Input", "Inputs"}

\* The NOOP flag of the tasks a class's instances produce: _generate_task
\* reads it off the instance (line 77).
InstanceNOOP(tc) == IF tc.base \in {"Input", "Inputs"} THEN TRUE ELSE tc.NOOP

\* '__'.join(t.name for t in tool_classes)
RECURSIVE join_names(_, _)
join_names(tool_classes, i) ==
    IF i > Len(tool_classes) THEN ""
    ELSE IF i = Len(tool_classes) THEN tool_classes[i].name
    ELSE tool_classes[i].name \o "__" \o join_names(tool_classes, i + 1)

\* it.chain(*(tc.outputs for tc in tool_classes))
RECURSIVE concat_outputs(_, _)
concat_outputs(tool_classes, i) ==
    IF i > Len(tool_classes) THEN <<>>
    ELSE tool_classes[i].outputs \o concat_outputs(tool_classes, i + 1)

chain(tool_classes) ==
    LET idx == 1..Len(tool_classes)
    IN IF \E k \in idx : ~IsToolSubclass(tool_classes[k]) THEN Raised("AssertionError")
       ELSE IF \E k \in idx : tool_classes[k].NOOP THEN Raised("AssertionError")
       ELSE IF tool_classes = <<>> THEN Raised("IndexError")
       ELSE Returned(
            [name |-> join_names(tool_classes, 1),
             base |-> "CollapsedTool",
             merged_tool_classes |-> tool_classes,
             inputs |-> tool_classes[1].inputs,
             outputs |-> concat_outputs(tool_classes, 1),
             mem_req |-> PyMax({tool_classes[k].mem_req : k \in idx}),
             time_req |-> PyMax({tool_classes[k].time_req : k \in idx}),
             cpu_req |-> PyMax({tool_classes[k].cpu_req : k \in idx}),
             must_succeed |-> \E k \in idx : tool_classes[k].must_succeed,
             persist |-> \E k \in idx : tool_classes[k].persist,
             \* inherited from Tool: NOOP, drm and cmd(self, i, o, s, **kwargs)
             NOOP |-> FALSE,
             drm |-> None,
             cmd_args |-> {"self", "i", "o", "s"}])

ChainCalls == UNION {[1..n -> ChainableClasses] : n \in 0..MaxChain}

InitChain ==
    /\ ch_pc = "call"
    /\ ch_args \in ChainCalls
    /\ ch_ret = NoOutcome
    /\ IdleAllBut("ch")

Chain ==
    /\ ch_pc = "call"
    /\ ch_ret' = chain(ch_args)
    /\ ch_pc' = "done"
    /\ UNCHANGED <<ch_args, ch_others>>

NextChain == Chain

SpecChain == InitChain /\ [][NextChain]_vars

(***************************************************************************)
(* Claims about chain()                                                    *)
(***************************************************************************)
ChainDone == ch_pc = "done"

\* C6: chain(T1, ..., Tn) is rejected whenever some Ti produces NOOP tasks
\* (the Input and Inputs tools included); a chained tool is returned only
\* when every Ti produces non-NOOP tasks.
C6_ChainRejectsNoopTools ==
    ChainDone =>
        /\ (\E k \in 1..Len(ch_args) : InstanceNOOP(ch_args[k])) => ch_ret.kind = "raise"
        /\ ch_ret.kind = "return" => \A k \in 1..Len(ch_args) : ~InstanceNOOP(ch_args[k])

(***************************************************************************)
(* chain._generate_command (src/cosmos/models/Tool.py): rendering a task   *)
(* of a chained tool                                                       *)
(***************************************************************************)
MaxMerged == 3
MaxConsumers == 1

RenderOutputDecls ==
    {<<AbstractOutputFile(Some(n), Some("txt"))>> : n \in {"x", "y", "z"}}
    \cup {<<AbstractOutputFile(Some("x"), Some("txt")), AbstractOutputFile(Some("y"), Some("txt"))>>}

RenderAbstractInputs ==
    {AbstractInputFile(n, Some("txt"), fw) :
        n \in {None, Some("x"), Some("y"), Some("in")}, fw \in BOOLEAN}
    \cup {AbstractInputFile(None, Some("*"), fw) : fw \in BOOLEAN}

RenderInputDecls == {<<>>} \cup {<<ai>> : ai \in RenderAbstractInputs}

\* the user's tool classes that get chained
RenderToolClasses ==
    {ToolClass("T", "Tool", FALSE, ins, outs, None, TRUE) :
        ins \in RenderInputDecls, outs \in RenderOutputDecls}

\* what the parent of the chained task offers as inputs
RenderParentOutputs ==
    {<<>>, <<TaskFile(11, "in", "txt")>>, <<TaskFile(11, "in", "txt"), TaskFile(12, "x", "txt")>>}

\* the abstract input of a downstream tool bound to the chained task
DownstreamInputs ==
    {AbstractInputFile(n, Some("txt"), FALSE) : n \in {None, Some("x"), Some("y"), Some("z")}}

\* The InputFileAssociations consumer c gets when _generate_task binds its
\* abstract input to the chained task's output files.
DownstreamAssocs(c, abstract_input, output_files) ==
    LET found == _find(output_files, abstract_input, FALSE).yielded
    IN {[consumer |-> c, taskfile |-> found[k].id] : k \in 1..Len(found)}

\* The outcome of a step of instantiate_tools.
Partial(exc, stop, files, rest) == [exc |-> exc, stop |-> stop, files |-> files, rest |-> rest]

\* assign_outputs with the assigned file left in all_outputs.
RECURSIVE assign_outputs_keep(_, _, _, _)
assign_outputs_keep(outputs, j, all_outputs, this_output_taskfiles) ==
    IF j > Len(outputs) THEN Partial(None, FALSE, this_output_taskfiles, all_outputs)
    ELSE LET g == _find(all_outputs, outputs[j], TRUE)
         IN IF g.yielded = <<>>
            THEN IF g.exc # None
                 THEN Partial(g.exc, FALSE, this_output_taskfiles, all_outputs)
                 ELSE Partial(None, TRUE, this_output_taskfiles, all_outputs)
            ELSE assign_outputs_keep(outputs, j + 1, all_outputs,
                                     Append(this_output_taskfiles, g.yielded[1]))

\* Lines 273-277 from declared output j on: each abstract output takes
\* next(_find(all_outputs, abstract_output, True)) and removes it from
\* all_outputs.  A _find that ends without yielding makes next() raise
\* StopIteration, which ends the generator under Python 2.
RECURSIVE assign_outputs(_, _, _, _)
assign_outputs(outputs, j, all_outputs, this_output_taskfiles) ==
    IF j > Len(outputs) THEN Partial(None, FALSE, this_output_taskfiles, all_outputs)
    ELSE LET g == _find(all_outputs, outputs[j], TRUE)
         IN IF g.yielded = <<>>
            THEN IF g.exc # None
                 THEN Partial(g.exc, FALSE, this_output_taskfiles, all_outputs)
                 ELSE Partial(None, TRUE, this_output_taskfiles, all_outputs)
            ELSE LET tf == g.yielded[1]
                     Keep(f) == f # tf
                 IN assign_outputs(outputs, j + 1, SelectSeq(all_outputs, Keep),
                                   Append(this_output_taskfiles, tf))

\* forward_inputs with the forward flag of the abstract inputs ignored.
RECURSIVE forward_inputs_all(_, _, _, _)
forward_inputs_all(inputs, j, this_input_taskfiles, this_output_taskfiles) ==
    IF j > Len(inputs) THEN Partial(None, FALSE, this_output_taskfiles, <<>>)
    ELSE LET g == _find(this_input_taskfiles, inputs[j], TRUE)
         IN IF g.exc # None THEN Partial(g.exc, FALSE, this_output_taskfiles, <<>>)
            ELSE forward_inputs_all(inputs, j + 1, this_input_taskfiles,
                                    this_output_taskfiles \o g.yielded)

\* Lines 280-282 from declared input j on: the inputs a tool forwards are
\* appended, in place, to the list it was yielded with as its outputs.
RECURSIVE forward_inputs(_, _, _, _)
forward_inputs(inputs, j, this_input_taskfiles, this_output_taskfiles) ==
    IF j > Len(inputs) THEN Partial(None, FALSE, this_output_taskfiles, <<>>)
    ELSE IF ~inputs[j].forward
         THEN forward_inputs(inputs, j + 1, this_input_taskfiles, this_output_taskfiles)
    ELSE LET g == _find(this_input_taskfiles, inputs[j], TRUE)
         IN IF g.exc # None THEN Partial(g.exc, FALSE, this_output_taskfiles, <<>>)
            ELSE forward_inputs(inputs, j + 1, this_input_taskfiles,
                                this_output_taskfiles \o g.yielded)

\* What the loop of line 286 has seen when it ends: the exception that ended
\* it (if any), the (tool, inputs, outputs) triples as they were when _cmd
\* rendered them, and the list `output_taskfiles` is bound to afterwards: the
\* last yielded output list, as the generator left it.
Rendered(exc, results, output_taskfiles) ==
    [exc |-> exc, results |-> results, output_taskfiles |-> output_taskfiles]

\* instantiate_tools driven by the loop of lines 286-290, from tool k on.
RECURSIVE instantiate_tools(_, _, _, _, _, _)
instantiate_tools(tool_classes, task, k, all_outputs, this_input_taskfiles, results) ==
    LET last == IF results = <<>> THEN None ELSE Some(this_input_taskfiles)
    IN IF k > Len(tool_classes) THEN Rendered(None, results, last)
       ELSE LET tool == Tool__init__(tool_classes[k], task.tags)
            IN IF tool.kind = "raise" THEN Rendered(Some(tool.exc), results, last)
               ELSE LET a == assign_outputs(tool_classes[k].outputs, 1, all_outputs, <<>>)
                    IN IF a.exc # None THEN Rendered(a.exc, results, last)
                       ELSE IF a.stop THEN Rendered(None, results, last)
                       ELSE LET yielded == [tool |-> k,
                                            input_taskfiles |-> this_input_taskfiles,
                                            output_taskfiles |-> a.files]
                                f == forward_inputs(tool_classes[k].inputs, 1,
                                                    this_input_taskfiles, a.files)
                            IN IF f.exc # None
                               THEN Rendered(f.exc, Append(results, yielded), Some(a.files))
                               ELSE instantiate_tools(tool_classes, task, k + 1, a.rest,
                                                      f.files, Append(results, yielded))

FileIds(taskfiles) == {taskfiles[k].id : k \in 1..Len(taskfiles)}

\* Lines 293-296: the associations deleted, given what output_taskfiles holds.
demoted_assocs(task, assocs, output_taskfiles) ==
    LET remove == FileIds(task.output_files) \ FileIds(output_taskfiles)
    IN {ifa \in assocs : ifa.taskfile \in remove}

\* chain._generate_command: the outcome and the associations it deleted.
chain_generate_command(task, assocs) ==
    LET r == instantiate_tools(task.merged_tool_classes, task, 1,
                               task.output_files, task.input_files, <<>>)
    IN IF r.exc # None THEN [outcome |-> Raised(The(r.exc)), deleted |-> {}]
       ELSE IF r.output_taskfiles = None
            THEN [outcome |-> Raised("UnboundLocalError"), deleted |-> {}]
       ELSE [outcome |-> Returned(r.results),
             deleted |-> demoted_assocs(task, assocs, The(r.output_taskfiles))]

\* The chains a task can come from: chain() returned a class and the class
\* instantiated (no two merged outputs share a (name, format)).
RenderChains ==
    {tcs \in UNION {[1..n -> RenderToolClasses] : n \in 1..MaxMerged} :
        /\ chain(tcs).kind = "return"
        /\ Tool__init__(chain(tcs).value, {}).kind = "return"}

\* A tool instance: the attributes of its class and the tags it was made with.
ToolInstance(cls, tags) == [tags |-> tags] @@ cls

\* The task _generate_task builds for a chained tool with these tags under
\* one parent, if binding succeeds.
ChainedTask(tcs, parent_outputs, tags) ==
    LET parent == [output_files |-> parent_outputs, forwarded_inputs |-> <<>>]
        t == _generate_task(ToolInstance(chain(tcs).value, tags), <<parent>>, "lsf")
    IN IF t.kind = "raise" THEN None
       ELSE Some([merged_tool_classes |-> tcs,
                  tags |-> tags,
                  input_files |->
                      [k \in 1..Len(t.value._input_file_assocs) |->
                          t.value._input_file_assocs[k].taskfile],
                  output_files |-> t.value.output_files])

RenderTask(tcs, parent_outputs) == The(ChainedTask(tcs, parent_outputs, {}))

InitRender ==
    /\ cr_pc = "call"
    /\ \E tcs \in RenderChains, po \in RenderParentOutputs :
          /\ ChainedTask(tcs, po, {}) # None
          /\ cr_task = RenderTask(tcs, po)
    /\ \E ds \in [1..MaxConsumers -> DownstreamInputs] :
          cr_assocs = UNION {DownstreamAssocs(c, ds[c], cr_task.output_files) :
                                c \in 1..MaxConsumers}
    /\ cr_ret = NoOutcome
    /\ IdleAllBut("cr")

GenerateCommand ==
    /\ cr_pc = "call"
    /\ LET r == chain_generate_command(cr_task, cr_assocs)
       IN /\ cr_ret' = r
          /\ cr_assocs' = cr_assocs \ r.deleted
    /\ cr_pc' = "done"
    /\ UNCHANGED <<cr_task, cr_others>>

NextRender == GenerateCommand

SpecRender == InitRender /\ [][NextRender]_vars

\* Chains whose tools overlap in what they declare: an output named by a
\* tag, an output of format '*', two outputs, inputs forwarded or not, two
\* forwarded inputs that match the same file.
PartitionOutputDecls ==
    {<<AbstractOutputFile(Some("x"), Some("txt"))>>,
     <<AbstractOutputFile(Some("y"), Some("txt")), AbstractOutputFile(Some("z"), Some("txt"))>>,
     <<AbstractOutputFile(Some("{sample}"), Some("txt"))>>,
     <<AbstractOutputFile(Some("w"), Some("*"))>>}

PartitionInputDecls ==
    {<<>>,
     <<AbstractInputFile(Some("in"), Some("txt"), TRUE)>>,
     <<AbstractInputFile(None, Some("txt"), FALSE)>>,
     <<AbstractInputFile(None, Some("*"), TRUE)>>,
     <<AbstractInputFile(None, Some("txt"), TRUE), AbstractInputFile(Some("x"), Some("txt"), TRUE)>>}

PartitionToolClasses ==
    {ToolClass("T", "Tool", FALSE, ins, outs, None, TRUE) :
        ins \in PartitionInputDecls, outs \in PartitionOutputDecls}

PartitionParentOutputs ==
    {<<>>, <<TaskFile(11, "in", "txt"), TaskFile(12, "x", "txt")>>}

PartitionChains ==
    {tcs \in UNION {[1..n -> PartitionToolClasses] : n \in 1..MaxMerged} :
        /\ chain(tcs).kind = "return"
        /\ Tool__init__(chain(tcs).value, {"sample"}).kind = "return"}

InitPartition ==
    /\ cr_pc = "call"
    /\ \E tcs \in PartitionChains, po \in PartitionParentOutputs :
          /\ ChainedTask(tcs, po, {"sample"}) # None
          /\ cr_task = The(ChainedTask(tcs, po, {"sample"}))
    /\ cr_assocs = {}
    /\ cr_ret = NoOutcome
    /\ IdleAllBut("cr")

SpecPartition == InitPartition /\ [][NextRender]_vars

(***************************************************************************)
(* Claims about rendering a chained task                                   *)
(***************************************************************************)
RenderDone == cr_pc = "done"
RenderReturned == RenderDone /\ cr_ret.outcome.kind = "return"

\* ids of the output files the partition gave to the last tool of the chain
LastToolOutputs ==
    LET results == cr_ret.outcome.value
    IN UNION {FileIds(results[k].output_taskfiles) :
                k \in {j \in 1..Len(results) :
                          results[j].tool = Len(cr_task.merged_tool_classes)}}

\* C7: after a chained tool has rendered its command, every output file of the
\* task that was not assigned to the last tool of the chain has no
\* InputFileAssociation left pointing at it, and every output file assigned to
\* the last tool keeps all of its InputFileAssociations.
C7_OnlyLastToolOutputsKeepAssocs ==
    RenderReturned =>
        \A id \in FileIds(cr_task.output_files) :
            IF id \in LastToolOutputs
            THEN \A ifa \in cr_ret.deleted : ifa.taskfile # id
            ELSE \A ifa \in cr_assocs : ifa.taskfile # id


(***************************************************************************)
(* Claims about the partition of a chained task's output files             *)
(***************************************************************************)
\* the abstract outputs the merged tools declare, in the order T1..Tn
RECURSIVE DeclaredOutputs(_, _)
DeclaredOutputs(tcs, k) ==
    IF k > Len(tcs) THEN <<>>
    ELSE [j \in 1..Len(tcs[k].outputs) |-> [tool |-> k, abstract |-> tcs[k].outputs[j]]]
         \o DeclaredOutputs(tcs, k + 1)

\* a file matches an abstract file: format '*' matches every file, else name
\* and format are equal, a null name or format matching anything
FileMatches(tf, abstract) ==
    \/ abstract.format = Some("*")
    \/ /\ (abstract.name = None \/ abstract.name = Some(tf.name))
       /\ (abstract.format = None \/ abstract.format = Some(tf.format))

\* First fit: declaration i takes the first unassigned file that matches it.
\* The files taken so far, and whether a declaration found none.
RECURSIVE FirstFit(_, _, _, _)
FirstFit(declared, i, unassigned, taken) ==
    IF i > Len(declared) THEN [taken |-> taken, missing |-> FALSE]
    ELSE LET fits == {n \in 1..Len(unassigned) : FileMatches(unassigned[n], declared[i].abstract)}
         IN IF fits = {} THEN [taken |-> taken, missing |-> TRUE]
            ELSE LET first == CHOOSE n \in fits : \A m \in fits : n <= m
                 IN FirstFit(declared, i + 1,
                             [n \in 1..(Len(unassigned) - 1) |->
                                 IF n < first THEN unassigned[n] ELSE unassigned[n + 1]],
                             Append(taken, [tool |-> declared[i].tool,
                                            file |-> unassigned[first]]))

\* the files first fit gives to tool k, in the order of its declarations
FirstFitOf(taken, k) ==
    LET Mine(e) == e.tool = k
        mine == SelectSeq(taken, Mine)
    IN [j \in 1..Len(mine) |-> mine[j].file]

\* C11: rendering a chained task walks T1..Tn and gives each declared output,
\* in order, the first still-unassigned output file of the task that matches
\* it; when a declared output finds none, rendering raises; when rendering
\* returns, every tool was rendered with exactly one file per declared
\* output, and no output file was given to two declarations or two tools.
C11_OutputsPartitionedFirstFit ==
    RenderDone =>
        LET tcs == cr_task.merged_tool_classes
            fit == FirstFit(DeclaredOutputs(tcs, 1), 1, cr_task.output_files, <<>>)
        IN /\ fit.missing => cr_ret.outcome.kind = "raise"
           /\ cr_ret.outcome.kind = "return" =>
                LET results == cr_ret.outcome.value
                IN /\ Len(results) = Len(tcs)
                   /\ \A k \in 1..Len(results) :
                        /\ results[k].output_taskfiles = FirstFitOf(fit.taken, k)
                        /\ Len(results[k].output_taskfiles) = Len(tcs[k].outputs)
                        /\ \A j \in 1..Len(tcs[k].outputs) :
                              FileMatches(results[k].output_taskfiles[j], tcs[k].outputs[j])
                   /\ \A k1, k2 \in 1..Len(results) :
                        \A j1 \in 1..Len(results[k1].output_taskfiles),
                           j2 \in 1..Len(results[k2].output_taskfiles) :
                            results[k1].output_taskfiles[j1].id = results[k2].output_taskfiles[j2].id
                                => (k1 = k2 /\ j1 = j2)

\* a chain of three tools rendered, where the '*' output of a later tool also
\* matches a file already given to an earlier tool
C11_Witness ==
    /\ RenderReturned
    /\ Len(cr_ret.outcome.value) = 3
    /\ \E k \in 2..3 :
          /\ cr_task.merged_tool_classes[k].outputs[1].format = Some("*")
          /\ Len(cr_task.merged_tool_classes[1].outputs) = 2
          /\ cr_ret.outcome.value[k].output_taskfiles[1].id
                \notin FileIds(cr_ret.outcome.value[1].output_taskfiles)

\* a declared output without a matching file: rendering raised ValueError
PartitionFailed ==
    /\ RenderDone
    /\ FirstFit(DeclaredOutputs(cr_task.merged_tool_classes, 1), 1,
                cr_task.output_files, <<>>).missing
    /\ cr_ret.outcome = Raised("ValueError")


(***************************************************************************)
(* Claims about the inputs and outputs each chained tool is rendered with  *)
(***************************************************************************)
\* those of the inputs that match some abstract input declared forward=true
ForwardedInputs(inputs, taskfiles) ==
    LET Forwarded(tf) ==
            \E j \in 1..Len(inputs) : inputs[j].forward /\ FileMatches(tf, inputs[j])
    IN SelectSeq(taskfiles, Forwarded)

\* for each abstract input declared forward=true, in declared order, the
\* inputs that match it
RECURSIVE ForwardedPerDeclaration(_, _, _)
ForwardedPerDeclaration(inputs, j, taskfiles) ==
    IF j > Len(inputs) THEN <<>>
    ELSE LET Matching(tf) == FileMatches(tf, inputs[j])
         IN (IF inputs[j].forward THEN SelectSeq(taskfiles, Matching) ELSE <<>>)
            \o ForwardedPerDeclaration(inputs, j + 1, taskfiles)

ForwardedFrom1(inputs, taskfiles) == ForwardedPerDeclaration(inputs, 1, taskfiles)

\* what rendering T1..Tn in order with threaded inputs means, given how the
\* forwarded inputs of a tool are collected
Threaded(forwarded(_, _)) ==
    RenderReturned =>
        LET tcs == cr_task.merged_tool_classes
            results == cr_ret.outcome.value
            fit == FirstFit(DeclaredOutputs(tcs, 1), 1, cr_task.output_files, <<>>)
        IN /\ Len(results) = Len(tcs)
           /\ \A k \in 1..Len(results) :
                /\ results[k].tool = k
                /\ results[k].output_taskfiles = FirstFitOf(fit.taken, k)
           /\ results[1].input_taskfiles = cr_task.input_files
           /\ \A k \in 1..(Len(results) - 1) :
                results[k + 1].input_taskfiles =
                    results[k].output_taskfiles
                    \o forwarded(tcs[k].inputs, results[k].input_taskfiles)

\* C12: when a chained task is rendered, T1 gets the task's input files; for
\* i < n, Ti+1 gets the output files assigned to Ti followed by those of
\* Ti's inputs that match an abstract input of Ti declared forward=true; Ti
\* itself is rendered with only the files assigned to it as outputs; the
\* sub-commands come in the order T1..Tn.
C12_InputsThreadedThroughChain == Threaded(ForwardedInputs)

\* C12 amended: the same, with the forwarded inputs collected per
\* declaration: Ti+1 gets the output files assigned to Ti followed by, for
\* each abstract input of Ti declared forward=true in declared order, those
\* of Ti's inputs that match it, so an input that matches two such
\* declarations is passed on twice.
C12_InputsThreadedPerDeclaration == Threaded(ForwardedFrom1)

\* a tool in the chain passes on more files than it received: one of its
\* inputs matches both of its forward=true declarations
C12_Witness ==
    /\ RenderReturned
    /\ \E k \in 1..(Len(cr_ret.outcome.value) - 1) :
          LET this == cr_ret.outcome.value[k]
              next == cr_ret.outcome.value[k + 1]
          IN /\ Len(cr_task.merged_tool_classes[k].inputs) = 2
             /\ this.input_taskfiles # <<>>
             /\ Len(next.input_taskfiles)
                   > Len(this.output_taskfiles) + Len(this.input_taskfiles)

(***************************************************************************)
(* The executor loop.  Its code is not among the sources at hand, so the   *)
(* state machine follows the specification's section 4.6: eligibility,     *)
(* the steps of a scheduling tick, the status lattice and failure          *)
(* propagation.  Each action is one persisted transition of one Task,      *)
(* followed by the recomputation of the Execution's status.  Kill and      *)
(* resume are not modelled.                                                *)
(***************************************************************************)
MaxTasks == 3
MaxAttempts == 3
MaxShared == 2
MaxInFlight == 2

\* TaskStatus, ExecutionStatus (cosmos/__init__.py)
TaskStatus == {"no_attempt", "waiting", "submitted", "successful", "failed", "killed"}
ExecutionStatus ==
    {"no_attempt", "running", "successful", "killed", "failed_but_running", "failed"}

\* What the attempt count of a Task is before its first run: the
\* specification does not say, so both conventions are explored.
InitialAttempts == {0, 1}

\* The script of a Task: add_one of examples/reattempt.py, or a command
\* whose exit code is arbitrary.
Scripts == {"add_one", "any"}

\* int(fp.read()) of what str(i + 1) wrote
ParseInt(s) == CHOOSE i \in 0..(MaxAttempts + 2) : ToString(i) = s

add_one_fails_thrice(file) ==
    LET i == IF file = None THEN 0 ELSE ParseInt(The(file))
    IN [out_file |-> Some(ToString(i + 1)), exit_code |-> IF i < 3 THEN 1 ELSE 0]

\* add_one(out_file): reads the counter (0 when the file does not exist),
\* writes counter + 1, and raises while the counter read is below 2.
add_one(file) ==
    LET i == IF file = None THEN 0 ELSE ParseInt(The(file))
    IN [out_file |-> Some(ToString(i + 1)), exit_code |-> IF i < 2 THEN 1 ELSE 0]

\* One run of a Task's script: the exit codes it can produce and the file
\* it leaves behind.
script_runs(script, file) ==
    IF script = "add_one" THEN {add_one(file)}
    ELSE {[out_file |-> file, exit_code |-> c] : c \in {0, 1}}

\* The parent relations of n tasks numbered in a topological order.
DagParents(n) ==
    {f \in [1..n -> SUBSET (1..n)] : \A t \in 1..n : f[t] \subseteq 1..(t - 1)}

\* The persisted Task DAGs: NOOP tasks (Input, Inputs) have no parents.
TaskGraphs(n, parents, noops, max_attempts, scripts) ==
    {[n |-> n, parents |-> ps, must_succeed |-> ms, NOOP |-> [t \in 1..n |-> t \in no],
      max_attempts |-> ma, script |-> sc, initial_attempt |-> a0] :
        ps \in parents,
        ms \in [1..n -> BOOLEAN],
        no \in noops,
        ma \in max_attempts,
        sc \in scripts,
        a0 \in InitialAttempts}

RECURSIVE Ancestors(_, _)
Ancestors(g, t) == g.parents[t] \cup UNION {Ancestors(g, p) : p \in g.parents[t]}

Descendants(g, t) == {d \in 1..g.n : t \in Ancestors(g, d)}

\* "treated as successful for dependency purposes"
TerminalSuccess(g, st, p) ==
    st[p] = "successful" \/ (st[p] = "failed" /\ ~g.must_succeed[p])

EligibleIgnoringParents(g, st, t) ==
    st[t] \in {"no_attempt", "waiting"}

\* Only NOOP tasks and tasks with all parents successful are eligible.
Eligible(g, st, t) ==
    /\ st[t] \in {"no_attempt", "waiting"}
    /\ (g.NOOP[t] \/ \A p \in g.parents[t] : TerminalSuccess(g, st, p))

InFlight(st) == {t \in DOMAIN st : st[t] = "submitted"}

\* The status lattice, for the Execution (failed_but_running replaces
\* running_but_failed).  A task that has not reached successful, failed or
\* killed counts as running once the Execution has started.
ExecutionLub(g, st) ==
    LET running == \E t \in 1..g.n : st[t] \in {"no_attempt", "waiting", "submitted"}
        failed  == \E t \in 1..g.n : st[t] = "failed"
        failed_must_succeed == \E t \in 1..g.n : st[t] = "failed" /\ g.must_succeed[t]
    IN IF \A t \in 1..g.n : st[t] = "killed" THEN "killed"
       ELSE IF running /\ ~failed THEN "running"
       ELSE IF running /\ failed THEN "failed_but_running"
       ELSE IF failed_must_succeed THEN "failed"
       ELSE "successful"

poison_none(g, st, t) == st

\* A failed Task with must_succeed poisons its transitive descendants: they
\* are marked failed without being submitted.
poison(g, st, t) ==
    IF st[t] = "failed" /\ g.must_succeed[t]
    THEN [d \in 1..g.n |-> IF d \in Descendants(g, t) THEN "failed" ELSE st[d]]
    ELSE st

\* on nonzero: increment attempt count, and if attempts < max_attempts
\* resubmit (status back to waiting) else failed
reattempt(att, max_attempts) ==
    LET attempts == att + 1
    IN [attempt |-> attempts,
        status |-> IF attempts < max_attempts THEN "waiting" ELSE "failed"]

InitExecutor(graphs) ==
    /\ IdleAllBut("ex")
    /\ ex_pc = "new"
    /\ ex_graph \in graphs
    /\ ex_status = "no_attempt"
    /\ task_status = [t \in 1..ex_graph.n |-> "no_attempt"]
    /\ attempt = [t \in 1..ex_graph.n |-> ex_graph.initial_attempt]
    /\ submissions = [t \in 1..ex_graph.n |-> 0]
    /\ out_file = [t \in 1..ex_graph.n |-> None]

\* On start the Execution goes from no_attempt to running.
StartExecution ==
    /\ ex_pc = "new"
    /\ ex_pc' = "running"
    /\ ex_status' = "running"
    /\ UNCHANGED <<ex_graph, task_status, attempt, submissions, out_file, ex_others>>

\* tick (2): an eligible NOOP task is marked successful immediately
MarkNoop(t) ==
    /\ ex_pc = "running"
    /\ Eligible(ex_graph, task_status, t)
    /\ ex_graph.NOOP[t]
    /\ task_status' = [task_status EXCEPT ![t] = "successful"]
    /\ ex_status' = ExecutionLub(ex_graph, task_status')
    /\ UNCHANGED <<ex_pc, ex_graph, attempt, submissions, out_file, ex_others>>

\* tick (1), (3): an eligible task within the concurrency ceiling is
\* submitted to the DRM
SubmitTask(t) ==
    /\ ex_pc = "running"
    /\ Eligible(ex_graph, task_status, t)
    /\ ~ex_graph.NOOP[t]
    /\ Cardinality(InFlight(task_status)) < MaxInFlight
    /\ task_status' = [task_status EXCEPT ![t] = "submitted"]
    /\ submissions' = [submissions EXCEPT ![t] = @ + 1]
    /\ ex_status' = ExecutionLub(ex_graph, task_status')
    /\ UNCHANGED <<ex_pc, ex_graph, attempt, out_file, ex_others>>

\* tick (4): poll of an in-flight task whose job has finished
PollTask(t) ==
    /\ ex_pc = "running"
    /\ task_status[t] = "submitted"
    /\ \E run \in script_runs(ex_graph.script[t], out_file[t]) :
          /\ out_file' = [out_file EXCEPT ![t] = run.out_file]
          /\ IF run.exit_code = 0
             THEN /\ task_status' = [task_status EXCEPT ![t] = "successful"]
                  /\ attempt' = attempt
             ELSE LET r == reattempt(attempt[t], ex_graph.max_attempts[t])
                  IN /\ attempt' = [attempt EXCEPT ![t] = r.attempt]
                     /\ task_status' =
                           poison(ex_graph, [task_status EXCEPT ![t] = r.status], t)
    /\ ex_status' = ExecutionLub(ex_graph, task_status')
    /\ UNCHANGED <<ex_pc, ex_graph, submissions, ex_others>>

\* tick (7): the loop exits once the Execution is in a terminal state
ExitLoop ==
    /\ ex_pc = "running"
    /\ ex_status \in {"successful", "failed", "killed"}
    /\ ex_pc' = "exited"
    /\ UNCHANGED <<ex_graph, ex_status, task_status, attempt, submissions, out_file, ex_others>>

NextExecutor ==
    \/ StartExecution
    \/ \E t \in DOMAIN task_status : MarkNoop(t)
    \/ \E t \in DOMAIN task_status : SubmitTask(t)
    \/ \E t \in DOMAIN task_status : PollTask(t)
    \/ ExitLoop

\* Workflows of examples/reattempt.py: up to two tasks, each running add_one
\* or an arbitrary command with its own max_attempts.
ReattemptGraphs ==
    TaskGraphs(2, DagParents(2), {{}, {1}}, [1..2 -> 1..MaxAttempts], [1..2 -> Scripts])

\* parent -> child -> grandchild, and a sibling branch with no dependency
PropagationScenario == <<{}, {1}, {2}, {}>>

\* Workflows of arbitrary commands with one max_attempts for all: every DAG
\* of MaxTasks tasks, and the propagation scenario.
PropagationGraphs ==
    TaskGraphs(MaxTasks, DagParents(MaxTasks), {{}, {1}},
               {[t \in 1..MaxTasks |-> m] : m \in 1..MaxShared},
               {[t \in 1..MaxTasks |-> "any"]})
    \cup TaskGraphs(4, {PropagationScenario}, {{}},
                    {[t \in 1..4 |-> m] : m \in 1..MaxShared},
                    {[t \in 1..4 |-> "any"]})

InitReattempt == InitExecutor(ReattemptGraphs)
InitExecution == InitExecutor(PropagationGraphs)

SpecReattempt == InitReattempt /\ [][NextExecutor]_vars
SpecExecution == InitExecution /\ [][NextExecutor]_vars

(***************************************************************************)
(* Claims about the executor loop                                          *)
(***************************************************************************)
Finished(t) == task_status[t] \in {"successful", "failed"}

\* t has an ancestor that failed with must_succeed
Poisoned(t) ==
    \E a \in Ancestors(ex_graph, t) : task_status[a] = "failed" /\ ex_graph.must_succeed[a]

\* a task of the reattempt example: add_one with max_attempts=3, run to its end
ReattemptTaskEnded(t) ==
    /\ ex_graph.script[t] = "add_one" /\ ex_graph.max_attempts[t] = 3
    /\ ~ex_graph.NOOP[t] /\ Finished(t) /\ ~Poisoned(t)

SubmissionsBounded ==
    \A t \in DOMAIN task_status :
        /\ submissions[t] <= ex_graph.max_attempts[t]
        /\ (ex_graph.max_attempts[t] = 1 => submissions[t] <= 1)

StepEnabled ==
    \/ ex_pc = "new"
    \/ ex_pc = "running" /\ ex_status \in {"successful", "failed", "killed"}
    \/ /\ ex_pc = "running"
       /\ \E t \in DOMAIN task_status :
             \/ task_status[t] = "submitted"
             \/ /\ Eligible(ex_graph, task_status, t)
                /\ (ex_graph.NOOP[t]
                    \/ Cardinality(InFlight(task_status)) < MaxInFlight)

\* C9: once a must_succeed task is failed, none of its transitive descendants
\* is ever submitted and each ends failed; the loop never stops before the
\* Execution is terminal, and when it exits every task without a failed
\* must_succeed ancestor has run to completion (NOOP tasks successful, the
\* others submitted and then successful or failed) and the Execution is
\* failed if a must_succeed task failed; a task is marked failed without a
\* submission only below a failed must_succeed task, never because a
\* must_succeed=false task failed.
C9_FailurePropagation ==
    ex_pc # "idle" =>
      /\ \A t \in DOMAIN task_status : task_status[t] \in TaskStatus
      /\ ex_status \in ExecutionStatus
      /\ \A t \in DOMAIN task_status :
            (task_status[t] = "failed" /\ ex_graph.must_succeed[t]) =>
                /\ \A d \in Descendants(ex_graph, t) :
                      /\ submissions[d] = 0
                      /\ task_status[d] \in {"no_attempt", "failed"}
                      /\ (ex_pc = "exited" => task_status[d] = "failed")
                /\ (ex_pc = "exited" => ex_status = "failed")
      /\ (ex_pc # "exited" => StepEnabled)
      /\ ex_pc = "exited" =>
            \A t \in DOMAIN task_status :
                ~Poisoned(t) =>
                    IF ex_graph.NOOP[t] THEN task_status[t] = "successful"
                    ELSE Finished(t) /\ submissions[t] >= 1
      /\ \A t \in DOMAIN task_status :
            (task_status[t] = "failed" /\ submissions[t] = 0) => Poisoned(t)

\* the propagation scenario at its end: the parent failed with must_succeed,
\* child and grandchild failed unsubmitted, the sibling completed
C9_Witness ==
    /\ ex_pc = "exited" /\ ex_status = "failed"
    /\ ex_graph.parents = PropagationScenario
    /\ task_status = <<"failed", "failed", "failed", "successful">>
    /\ ex_graph.must_succeed[1]
    /\ submissions[1] >= 1 /\ submissions[2] = 0 /\ submissions[3] = 0
    /\ submissions[4] >= 1

\* C10: a non-NOOP task is submitted or successful only if each of its
\* parents is successful, or failed with must_succeed=false; hence no task
\* is in flight while a parent is no_attempt, waiting or submitted.
C10_ParentsTerminalBeforeSubmission ==
    ex_pc # "idle" =>
        \A t \in DOMAIN task_status :
            (~ex_graph.NOOP[t] /\ task_status[t] \in {"submitted", "successful"}) =>
                \A p \in ex_graph.parents[t] :
                    /\ TerminalSuccess(ex_graph, task_status, p)
                    /\ task_status[p] \notin {"no_attempt", "waiting", "submitted"}

\* a task in flight below two parents, one successful and one failed with
\* must_succeed=false
C10_Witness ==
    /\ ex_pc = "running"
    /\ \E t \in DOMAIN task_status :
          /\ task_status[t] = "submitted"
          /\ \E p, q \in ex_graph.parents[t] :
                /\ task_status[p] = "successful"
                /\ task_status[q] = "failed" /\ ~ex_graph.must_succeed[q]

====
